---------------------------- MODULE Spec2Model ----------------------------
(***************************************************************************)
(* JsonStore (src/json-store.js): a synchronous store that keeps one JSON  *)
(* file per (topic, id) under basedir/topic/id.json.                       *)
(*                                                                         *)
(* The state of the program is the filesystem.  A JavaScript string is a   *)
(* sequence of tokens (a token is a run of characters the code never looks *)
(* inside: "a", "x", the separator "/", the segment ".", the extension     *)
(* ".json"), so that id + EXTENSION, endsWith, basename and path.resolve   *)
(* are computed as the code computes them.  A resolved path is the         *)
(* sequence of its segments from the root.                                 *)
(***************************************************************************)
EXTENDS Naturals, Sequences, FiniteSets, TLC

VARIABLES fs,     \* the filesystem: [existing path -> "dir" or a file's text]
          order,  \* the order in which readdirSync lists names (fixed per run)
          call,   \* the last call made on the store, with its arguments
          ret,    \* what that call returned ("threw" when it raised)
          err,    \* "none", or the code of the error the call raised
          plain,  \* history: every call so far used plain names only
          run     \* per caller of a shared store: the call it is in the
                  \* middle of, one filesystem call at a time

vars == <<fs, order, call, ret, err, plain, run>>

-----------------------------------------------------------------------------
(* Bounds of the model.                                                    *)

\* arrays of ids passed to move and delete have at most MaxIds elements
MaxIds == 2

-----------------------------------------------------------------------------
(* Constants of the program.                                               *)

UTF8 == "utf8"
ENOENT == "ENOENT"
ENOTEMPTY == "ENOTEMPTY"
EXTENSION == <<".json">>

\* path.sep on the platform the model is about (POSIX)
SEP == "/"

\* error codes of the filesystem calls that the code does not name
ENOTDIR == "ENOTDIR"
EISDIR == "EISDIR"
EEXIST == "EEXIST"
\* errors raised without a code
TypeError == "TypeError"
NotADirectory == "Error: Not a directory"
NoParentDirectory == "Error: No parent directory"
NONE == "none"

-----------------------------------------------------------------------------
(* Strings and paths.                                                      *)

Last(s) == s[Len(s)]
Front(s) == SubSeq(s, 1, Len(s) - 1)
Reverse(s) == [k \in 1..Len(s) |-> s[Len(s) + 1 - k]]

RECURSIVE Split(_)
\* s.split(path.sep): the segments of a string, empty ones included
Split(s) ==
  IF \A k \in 1..Len(s) : s[k] # SEP
    THEN <<s>>
    ELSE LET k == CHOOSE j \in 1..Len(s) :
                    s[j] = SEP /\ \A m \in 1..(j - 1) : s[m] # SEP
         IN <<SubSeq(s, 1, k - 1)>> \o Split(SubSeq(s, k + 1, Len(s)))

RECURSIVE Normalize(_, _)
\* path.resolve's normalisation: "" and "." segments are dropped, ".." drops
\* the segment before it (and is itself dropped at the root)
Normalize(done, segs) ==
  IF segs = <<>> THEN done
  ELSE LET s == Head(segs)
       IN IF s = <<>> \/ s = <<".">> THEN Normalize(done, Tail(segs))
          ELSE IF s = <<"..">>
            THEN Normalize(IF done = <<>> THEN done ELSE Front(done), Tail(segs))
            ELSE Normalize(Append(done, s), Tail(segs))

IsAbsolute(s) == Len(s) > 0 /\ s[1] = SEP

RECURSIVE Join(_)
Join(parts) ==
  IF parts = <<>> THEN <<>> ELSE Split(Head(parts)) \o Join(Tail(parts))

\* path.resolve(parts...): the arguments from the last absolute one on,
\* joined and normalised.  The first argument is always the absolute basedir.
PathResolve(parts) ==
  LET abs == {k \in 1..Len(parts) : IsAbsolute(parts[k])}
      from == CHOOSE k \in abs : \A j \in abs : j <= k
  IN Normalize(<<>>, Join(SubSeq(parts, from, Len(parts))))

EndsWith(s, suffix) ==
  Len(s) >= Len(suffix) /\ SubSeq(s, Len(s) - Len(suffix) + 1, Len(s)) = suffix

\* path.basename(filename, ext) of a single segment
Basename(filename, ext) ==
  IF filename = ext THEN <<>>
  ELSE IF EndsWith(filename, ext)
    THEN SubSeq(filename, 1, Len(filename) - Len(ext))
    ELSE filename

-----------------------------------------------------------------------------
(* The filesystem calls of Node's fs module, on a filesystem f.            *)
(* Each returns [err |-> code or NONE, ...].                               *)

\* F applied to the value x: a local name for a value used more than once
Let(x, F(_)) == F(x)

IsDir(f, p) == p \in DOMAIN f /\ f[p] = "dir"
IsFile(f, p) == p \in DOMAIN f /\ f[p] # "dir"
Children(f, p) ==
  {q \in DOMAIN f : Len(q) = Len(p) + 1 /\ SubSeq(q, 1, Len(p)) = p}

\* the error of walking to p: the first prefix that is missing (ENOENT) or
\* is a file where a directory is needed (ENOTDIR)
LookupErr(f, p) ==
  Let({k \in 0..(Len(p) - 1) : ~IsDir(f, SubSeq(p, 1, k))}, LAMBDA bad :
    IF bad # {}
      THEN Let(CHOOSE j \in bad : \A m \in bad : j <= m, LAMBDA k :
             IF SubSeq(p, 1, k) \in DOMAIN f THEN ENOTDIR ELSE ENOENT)
      ELSE IF p \in DOMAIN f THEN NONE ELSE ENOENT)

\* the error of walking to the directory that holds p
ParentErr(f, p) == IF p = <<>> THEN NONE ELSE LookupErr(f, Front(p))

Remove(f, p) == [q \in DOMAIN f \ {p} |-> f[q]]
Store(f, p, node) == [q \in DOMAIN f \cup {p} |-> IF q = p THEN node ELSE f[q]]

readFileSync(f, p) ==
  Let(LookupErr(f, p), LAMBDA e :
    IF e # NONE THEN [err |-> e, text |-> ""]
    ELSE IF IsDir(f, p) THEN [err |-> EISDIR, text |-> ""]
    ELSE [err |-> NONE, text |-> f[p]])

writeFileSync(f, p, text) ==
  Let(ParentErr(f, p), LAMBDA e :
    IF e # NONE THEN [err |-> e, fs |-> f]
    ELSE IF p = <<>> \/ IsDir(f, p) THEN [err |-> EISDIR, fs |-> f]
    ELSE IF ~IsDir(f, Front(p)) THEN [err |-> ENOTDIR, fs |-> f]
    ELSE [err |-> NONE, fs |-> Store(f, p, text)])

\* unlink of a directory: EISDIR on Linux (EPERM elsewhere), never ENOENT
unlinkSync(f, p) ==
  Let(LookupErr(f, p), LAMBDA e :
    IF e # NONE THEN [err |-> e, fs |-> f]
    ELSE IF IsDir(f, p) THEN [err |-> EISDIR, fs |-> f]
    ELSE [err |-> NONE, fs |-> Remove(f, p)])

RECURSIVE SortBy(_, _)
\* the names of a set in the order of the sequence ord
SortBy(ord, names) ==
  IF ord = <<>> THEN <<>>
  ELSE (IF Head(ord) \in names THEN <<Head(ord)>> ELSE <<>>)
         \o SortBy(Tail(ord), names)

readdirSync(f, p, ord) ==
  Let(LookupErr(f, p), LAMBDA e :
    IF e # NONE THEN [err |-> e, names |-> <<>>]
    ELSE IF ~IsDir(f, p) THEN [err |-> ENOTDIR, names |-> <<>>]
    ELSE [err |-> NONE, names |-> SortBy(ord, {Last(q) : q \in Children(f, p)})])

rmdirSync(f, p) ==
  Let(LookupErr(f, p), LAMBDA e :
    IF e # NONE THEN [err |-> e, fs |-> f]
    ELSE IF ~IsDir(f, p) THEN [err |-> ENOTDIR, fs |-> f]
    ELSE IF Children(f, p) # {} THEN [err |-> ENOTEMPTY, fs |-> f]
    ELSE [err |-> NONE, fs |-> Remove(f, p)])

existsSync(f, p) == LookupErr(f, p) = NONE

mkdirSync(f, p) ==
  Let(ParentErr(f, p), LAMBDA e :
    IF e # NONE THEN [err |-> e, fs |-> f]
    ELSE IF p \in DOMAIN f THEN [err |-> EEXIST, fs |-> f]
    ELSE IF ~IsDir(f, Front(p)) THEN [err |-> ENOTDIR, fs |-> f]
    ELSE [err |-> NONE, fs |-> Store(f, p, "dir")])

-----------------------------------------------------------------------------
(* JavaScript values.                                                      *)
(* An argument is [t |-> its typeof ("array" for an array), s |-> the      *)
(* string it is or coerces to, items |-> its elements].                    *)

Str(tokens) == [t |-> "string", s |-> tokens, items |-> <<>>]
Arr(elems) == [t |-> "array", s |-> <<>>, items |-> elems]
NoArg == [t |-> "undefined", s |-> <<"undefined">>, items |-> <<>>]

\* the records the model stores, and the absent value
JNull == "null"
JZero == "0"
JEmpty == "''"
JNaN == "NaN"
JCircular == "[Circular]"
Undefined == "undefined"

\* JSON.stringify(data, null, 2): NaN is written as null, a structure that
\* contains itself raises a TypeError
stringify(data) ==
  CASE data = JNull -> [err |-> NONE, text |-> "null"]
    [] data = JZero -> [err |-> NONE, text |-> "0"]
    [] data = JEmpty -> [err |-> NONE, text |-> "\"\""]
    [] data = JNaN -> [err |-> NONE, text |-> "null"]
    [] OTHER -> [err |-> TypeError, text |-> ""]

\* JSON.parse(text)
parse(text) ==
  CASE text = "null" -> [err |-> NONE, val |-> JNull]
    [] text = "0" -> [err |-> NONE, val |-> JZero]
    [] text = "\"\"" -> [err |-> NONE, val |-> JEmpty]
    [] OTHER -> [err |-> "SyntaxError", val |-> Undefined]

-----------------------------------------------------------------------------
(* JsonStore.  Every operation returns its outcome                         *)
(* [err |-> NONE or the error raised, fs |-> the filesystem it leaves,     *)
(*  val |-> the value returned].                                           *)

\* this._basedir: the absolute path /w/base
basedir == <<SEP, "w", SEP, "base">>

Threw(e, f) == [err |-> e, fs |-> f, val |-> "threw"]
Returned(f, v) == [err |-> NONE, fs |-> f, val |-> v]

\* r when it raised, and otherwise what F makes of it
Try(r, F(_)) == IF r.err # NONE THEN Threw(r.err, r.fs) ELSE F(r)

_checkDefined(data) == data # Undefined
_checkNonEmptyString(x) == x.t = "string" /\ Len(x.s) > 0
_checkAbsolutePath(x) == IsAbsolute(x.s)
_checkArray(x) == x.t = "array"

_dirname(topic) == PathResolve(<<basedir, topic.s>>)

\* _pathname, were the extension left off
_pathnameBare(topic, id) == PathResolve(<<basedir, topic.s, id.s>>)

_pathname(topic, id) == PathResolve(<<basedir, topic.s, id.s \o EXTENSION>>)

_readFile(f, pathname) ==
  Let(readFileSync(f, pathname), LAMBDA r :
    IF r.err # NONE THEN Threw(r.err, f)
    ELSE Let(parse(r.text), LAMBDA v :
           IF v.err # NONE THEN Threw(v.err, f) ELSE Returned(f, v.val)))

\* _writeFile, were nothing written
_writeFileDry(f, pathname, data) ==
  Let(stringify(data), LAMBDA t :
    IF t.err # NONE THEN Threw(t.err, f) ELSE Returned(f, "void"))

_writeFile(f, pathname, data) ==
  Let(stringify(data), LAMBDA t :
    IF t.err # NONE THEN Threw(t.err, f)
    ELSE Let(writeFileSync(f, pathname, t.text), LAMBDA w :
           IF w.err # NONE THEN Threw(w.err, f) ELSE Returned(w.fs, "void")))

RECURSIVE _mkdirsForce(_, _)
\* _mkdirs, were a regular file in the way replaced by the directory
_mkdirsForce(f, dir) ==
  IF existsSync(f, dir)
    THEN IF IsDir(f, dir) THEN Returned(f, "void")
         ELSE Returned(Store(f, dir, "dir"), "void")
    ELSE IF Len(dir) = 1 THEN Threw(NoParentDirectory, f)
    ELSE Try(_mkdirsForce(f, Front(dir)), LAMBDA r :
           Let(mkdirSync(r.fs, dir), LAMBDA m :
             IF m.err # NONE THEN Threw(m.err, r.fs) ELSE Returned(m.fs, "void")))

RECURSIVE _mkdirs(_, _)
\* dir.substring(0, dir.lastIndexOf(path.sep)) of "/name" is "", which does
\* not exist and has no separator
_mkdirs(f, dir) ==
  IF existsSync(f, dir)
    THEN IF IsDir(f, dir) THEN Returned(f, "void") ELSE Threw(NotADirectory, f)
    ELSE IF Len(dir) = 1 THEN Threw(NoParentDirectory, f)
    ELSE Try(_mkdirs(f, Front(dir)), LAMBDA r :
           Let(mkdirSync(r.fs, dir), LAMBDA m :
             IF m.err # NONE THEN Threw(m.err, r.fs) ELSE Returned(m.fs, "void")))

\* get, were a stored null taken for a missing record
getNullAsUndefined(f, topic, id) ==
  IF ~_checkNonEmptyString(topic) \/ ~_checkNonEmptyString(id)
    THEN Threw(TypeError, f)
    ELSE Let(_readFile(f, _pathname(topic, id)), LAMBDA r :
           IF r.err = ENOENT \/ (r.err = NONE /\ r.val = JNull)
             THEN Returned(f, Undefined) ELSE r)

\* get, were ENOENT not caught
getRethrow(f, topic, id) ==
  IF ~_checkNonEmptyString(topic) \/ ~_checkNonEmptyString(id)
    THEN Threw(TypeError, f)
    ELSE _readFile(f, _pathname(topic, id))

get(f, topic, id) ==
  IF ~_checkNonEmptyString(topic) \/ ~_checkNonEmptyString(id)
    THEN Threw(TypeError, f)
    ELSE Let(_readFile(f, _pathname(topic, id)), LAMBDA r :
           IF r.err = ENOENT THEN Returned(f, Undefined) ELSE r)

put(f, topic, id, data) ==
  IF ~_checkNonEmptyString(topic) \/ ~_checkNonEmptyString(id)
       \/ ~_checkDefined(data)
    THEN Threw(TypeError, f)
    ELSE Try(_mkdirs(f, _dirname(topic)), LAMBDA m :
           _writeFile(m.fs, _pathname(topic, id), data))

\* _deleteTopicIfEmpty, were the directory never removed
_deleteTopicNever(f, topic) == Returned(f, "void")

\* _deleteTopicIfEmpty, were ENOENT not swallowed
_deleteTopicStrict(f, topic) ==
  Let(rmdirSync(f, _dirname(topic)), LAMBDA r :
    IF r.err = NONE THEN Returned(r.fs, "void")
    ELSE IF r.err = ENOTEMPTY THEN Returned(f, "void")
    ELSE Threw(r.err, f))

_deleteTopicIfEmpty(f, topic) ==
  Let(rmdirSync(f, _dirname(topic)), LAMBDA r :
    IF r.err = NONE THEN Returned(r.fs, "void")
    ELSE IF r.err = ENOENT \/ r.err = ENOTEMPTY THEN Returned(f, "void")
    ELSE Threw(r.err, f))

\* the callbacks, were all to key a record by the name of its file
CallbackByFilename(kind, f, acc, pathname, id) ==
  CASE kind = "ids" -> Returned(f, Append(acc, Str(id)))
    [] kind = "all" ->
         Try(_readFile(f, pathname), LAMBDA r :
           Returned(f, [k \in DOMAIN acc \cup {Last(pathname)} |->
                          IF k = Last(pathname) THEN r.val ELSE acc[k]]))
    [] kind = "values" ->
         Try(_readFile(f, pathname), LAMBDA r : Returned(f, Append(acc, r.val)))
    [] kind = "clean" ->
         Let(unlinkSync(f, pathname), LAMBDA r :
           IF r.err # NONE THEN Threw(r.err, f)
           ELSE Returned(r.fs, Append(acc, Str(id))))

\* the callbacks that ids, all, values and clean hand to _processFiles; acc
\* is the collection the callback's closure fills
Callback(kind, f, acc, pathname, id) ==
  CASE kind = "ids" -> Returned(f, Append(acc, Str(id)))
    [] kind = "all" ->
         Try(_readFile(f, pathname), LAMBDA r :
           Returned(f, [k \in DOMAIN acc \cup {id} |->
                          IF k = id THEN r.val ELSE acc[k]]))
    [] kind = "values" ->
         Try(_readFile(f, pathname), LAMBDA r : Returned(f, Append(acc, r.val)))
    [] kind = "clean" ->
         Let(unlinkSync(f, pathname), LAMBDA r :
           IF r.err # NONE THEN Threw(r.err, f)
           ELSE Returned(r.fs, Append(acc, Str(id))))

RECURSIVE ForEachFile(_, _, _, _, _)
\* filenames.forEach(...) of _processFiles; an error ends the loop and
\* val carries what the closure collected until then
ForEachFile(kind, f, acc, topic, filenames) ==
  IF filenames = <<>> THEN Returned(f, acc)
  ELSE IF EndsWith(Head(filenames), EXTENSION)
    THEN Let(Callback(kind, f, acc,
                      PathResolve(<<basedir, topic.s, Head(filenames)>>),
                      Basename(Head(filenames), EXTENSION)), LAMBDA r :
           IF r.err # NONE
             THEN [err |-> r.err, fs |-> r.fs, val |-> acc]
             ELSE ForEachFile(kind, r.fs, r.val, topic, Tail(filenames)))
    ELSE ForEachFile(kind, f, acc, topic, Tail(filenames))

\* _processFiles, were the ENOENT of readdirSync not swallowed
_processFilesStrict(kind, f, ord, acc, topic) ==
  Let(readdirSync(f, _dirname(topic), ord), LAMBDA d :
    IF d.err # NONE THEN Threw(d.err, f)
    ELSE Let(ForEachFile(kind, f, acc, topic, d.names), LAMBDA r :
           IF r.err = ENOENT THEN Returned(r.fs, r.val)
           ELSE IF r.err # NONE THEN Threw(r.err, r.fs)
           ELSE r))

\* ENOENT, from readdirSync or from a callback, ends the processing silently
_processFiles(kind, f, ord, acc, topic) ==
  Let(readdirSync(f, _dirname(topic), ord), LAMBDA d :
    IF d.err = ENOENT THEN Returned(f, acc)
    ELSE IF d.err # NONE THEN Threw(d.err, f)
    ELSE Let(ForEachFile(kind, f, acc, topic, d.names), LAMBDA r :
           IF r.err = ENOENT THEN Returned(r.fs, r.val)
           ELSE IF r.err # NONE THEN Threw(r.err, r.fs)
           ELSE r))

ids(f, ord, topic) ==
  IF ~_checkNonEmptyString(topic) THEN Threw(TypeError, f)
  ELSE _processFiles("ids", f, ord, <<>>, topic)

all(f, ord, topic) ==
  IF ~_checkNonEmptyString(topic) THEN Threw(TypeError, f)
  ELSE _processFiles("all", f, ord, [k \in {} |-> Undefined], topic)

values(f, ord, topic) ==
  IF ~_checkNonEmptyString(topic) THEN Threw(TypeError, f)
  ELSE _processFiles("values", f, ord, <<>>, topic)

RECURSIVE DeleteEachAll(_, _, _, _)
\* the loop of delete, were an id without a file reported as deleted too
DeleteEachAll(f, deleted, topic, idList) ==
  IF idList = <<>> THEN Returned(f, deleted)
  ELSE Let(unlinkSync(f, _pathname(topic, Head(idList))), LAMBDA r :
         IF r.err = NONE
           THEN DeleteEachAll(r.fs, Append(deleted, Head(idList)), topic,
                              Tail(idList))
         ELSE IF r.err = ENOENT
           THEN DeleteEachAll(f, Append(deleted, Head(idList)), topic,
                              Tail(idList))
         ELSE Threw(r.err, f))

RECURSIVE DeleteEach(_, _, _, _)
\* ids.forEach(...) of delete: a missing file is skipped
DeleteEach(f, deleted, topic, idList) ==
  IF idList = <<>> THEN Returned(f, deleted)
  ELSE Let(unlinkSync(f, _pathname(topic, Head(idList))), LAMBDA r :
         IF r.err = NONE
           THEN DeleteEach(r.fs, Append(deleted, Head(idList)), topic,
                           Tail(idList))
         ELSE IF r.err = ENOENT
           THEN DeleteEach(f, deleted, topic, Tail(idList))
         ELSE Threw(r.err, f))

\* typeof ids === 'string' ? [ids] : ids
AsArray(idArg) == IF idArg.t = "string" THEN Arr(<<idArg>>) ELSE idArg

delete(f, topic, idArg) ==
  IF ~_checkNonEmptyString(topic) \/ ~_checkArray(AsArray(idArg))
    THEN Threw(TypeError, f)
    ELSE Try(DeleteEach(f, <<>>, topic, AsArray(idArg).items), LAMBDA r :
           Try(_deleteTopicIfEmpty(r.fs, topic), LAMBDA t :
             Returned(t.fs, r.val)))

RECURSIVE MoveEachNoCopy(_, _, _, _, _)
\* the loop of move, were the record not written to newTopic
MoveEachNoCopy(f, moved, topic, idList, newTopic) ==
  IF idList = <<>> THEN Returned(f, moved)
  ELSE Try(get(f, topic, Head(idList)), LAMBDA g :
         IF g.val = Undefined
           THEN MoveEachNoCopy(f, moved, topic, Tail(idList), newTopic)
           ELSE MoveEachNoCopy(f, Append(moved, Head(idList)), topic,
                               Tail(idList), newTopic))

RECURSIVE MoveEachEager(_, _, _, _, _)
\* the loop of move, were each record removed from topic once it is copied
MoveEachEager(f, moved, topic, idList, newTopic) ==
  IF idList = <<>> THEN Returned(f, moved)
  ELSE Try(get(f, topic, Head(idList)), LAMBDA g :
         IF g.val = Undefined
           THEN MoveEachEager(f, moved, topic, Tail(idList), newTopic)
           ELSE Try(put(f, newTopic, Head(idList), g.val), LAMBDA w :
                  MoveEachEager(unlinkSync(w.fs, _pathname(topic, Head(idList))).fs,
                                Append(moved, Head(idList)), topic,
                                Tail(idList), newTopic)))

RECURSIVE MoveEach(_, _, _, _, _)
\* ids.forEach(...) of move: each id found in topic is written to newTopic
MoveEach(f, moved, topic, idList, newTopic) ==
  IF idList = <<>> THEN Returned(f, moved)
  ELSE Try(get(f, topic, Head(idList)), LAMBDA g :
         IF g.val = Undefined
           THEN MoveEach(f, moved, topic, Tail(idList), newTopic)
           ELSE Try(put(f, newTopic, Head(idList), g.val), LAMBDA w :
                  MoveEach(w.fs, Append(moved, Head(idList)), topic,
                           Tail(idList), newTopic)))

move(f, topic, idArg, newTopic) ==
  IF ~_checkNonEmptyString(topic) \/ ~_checkArray(AsArray(idArg))
       \/ ~_checkNonEmptyString(newTopic)
    THEN Threw(TypeError, f)
    ELSE Try(MoveEach(f, <<>>, topic, AsArray(idArg).items, newTopic),
             LAMBDA r :
               Try(delete(r.fs, topic, Arr(r.val)), LAMBDA d :
                 Returned(d.fs, r.val)))

\* clean, were the directory left in place
cleanFilesOnly(f, ord, topic) ==
  IF ~_checkNonEmptyString(topic) THEN Threw(TypeError, f)
  ELSE _processFiles("clean", f, ord, <<>>, topic)

clean(f, ord, topic) ==
  IF ~_checkNonEmptyString(topic) THEN Threw(TypeError, f)
  ELSE Try(_processFiles("clean", f, ord, <<>>, topic), LAMBDA r :
         Try(_deleteTopicIfEmpty(r.fs, topic), LAMBDA t :
           Returned(t.fs, r.val)))

\* store.purge(topic, ids): class JsonStore defines no purge, so the call
\* raises "TypeError: store.purge is not a function" and touches nothing
purge(f, topic, idArg) == Threw(TypeError, f)

\* the constructor, were it to create the base directory
constructorEager(f, dir) ==
  IF ~_checkNonEmptyString(dir) \/ ~_checkAbsolutePath(dir)
    THEN Threw(TypeError, f)
    ELSE _mkdirs(f, PathResolve(<<dir.s>>))

\* new JsonStore(dir)
constructor(f, dir) ==
  IF ~_checkNonEmptyString(dir) \/ ~_checkAbsolutePath(dir)
    THEN Threw(TypeError, f)
    ELSE Returned(f, "void")

-----------------------------------------------------------------------------
(* The arguments the model calls the store with.                           *)

A == Str(<<"a">>)
B == Str(<<"b">>)
X == Str(<<"x">>)
Y == Str(<<"y">>)
\* "a/.": another spelling of the directory of topic a
ADot == Str(<<"a", SEP, ".">>)
\* "a/x.json": the path of the file of id x in topic a, used as a topic
AXJson == Str(<<"a", SEP, "x", ".json">>)

\* "a/s": a topic whose directory lies inside the directory of topic a
ASub == Str(<<"a", SEP, "s">>)

TopicArgs == {A, B, ADot, AXJson}
\* the topics of a caller that nests one topic in another
NestedTopicArgs == {A, ASub}
IdArgs == {X, Y}
DataArgs == {JNull, JZero, JNaN, JCircular}

IdElems == {X, Y}
IdArrays == {Arr(l) : l \in UNION {[1..n -> IdElems] : n \in 0..MaxIds}}
IdOrIds == {X, Y} \cup IdArrays

\* the orders in which readdirSync may list the names of a directory
AllNames == << <<"w">>, <<"base">>, <<"a">>, <<"b">>, <<"s">>,
               <<"x", ".json">>, <<"y", ".json">> >>
DirOrders == {AllNames, Reverse(AllNames)}

\* a name that path.resolve maps to one path segment below its parent
PlainTopic(x) ==
  x.t = "string" /\ (\A k \in 1..Len(x.s) : x.s[k] # SEP)
    /\ x.s # <<".">> /\ x.s # <<"..">>
PlainId(x) == \A k \in 1..Len(x.s) : x.s[k] # SEP
PlainCall(c) ==
  /\ PlainTopic(c.topic)
  /\ c.op = "move" => PlainTopic(c.newTopic)
  /\ PlainId(c.id)
  /\ \A k \in 1..Len(c.id.items) : PlainId(c.id.items[k])

-----------------------------------------------------------------------------
(* The state machine: one action per method of JsonStore.                  *)

Call(op, topic, id, data, newTopic) ==
  [op |-> op, topic |-> topic, id |-> id, data |-> data, newTopic |-> newTopic]

\* no call is in progress and the caller holds no result
Idle == Call("idle", NoArg, NoArg, Undefined, NoArg)

\* two processes that use stores on the same base directory
Procs == {"p", "q"}

\* a caller that is in no call.  In a call: op is the method and pc the
\* filesystem call it makes next; todo are the names or ids its loop has yet
\* to visit and acc what it collected; listed is what readdirSync gave it.
\* History: peers are the methods the other caller ran steps of during the
\* call, lost is set when the topic directory was removed between the two
\* steps of put, gone when the file put wrote was removed afterwards.
Quiet ==
  [op |-> "idle", pc |-> "idle", topic |-> NoArg, id |-> NoArg,
   data |-> Undefined, todo |-> <<>>, acc |-> <<>>, err |-> NONE,
   listed |-> <<>>, peers |-> {}, lost |-> FALSE, gone |-> FALSE]

\* the directories above basedir exist; basedir itself is empty or missing
Init ==
  /\ fs \in {[q \in {<<>>, << <<"w">> >>} |-> "dir"],
             [q \in {<<>>, << <<"w">> >>, << <<"w">>, <<"base">> >>} |-> "dir"]}
  /\ order \in DirOrders
  /\ call = Idle
  /\ ret = "void"
  /\ err = NONE
  /\ plain = TRUE
  /\ run = [c \in Procs |-> Quiet]

\* the call c was made and ended with outcome r; every method is synchronous,
\* so a call starts only when the one before it has ended
Do(c, r) ==
  /\ call = Idle
  /\ fs' = r.fs
  /\ call' = c
  /\ ret' = IF r.err = NONE THEN r.val ELSE "threw"
  /\ err' = r.err
  /\ plain' = (plain /\ PlainCall(c))
  /\ UNCHANGED <<order, run>>

Get(topics) ==
  \E topic \in topics, id \in IdArgs :
    Do(Call("get", topic, id, Undefined, NoArg), get(fs, topic, id))

Put(topics) ==
  \E topic \in topics, id \in IdArgs, data \in DataArgs :
    Do(Call("put", topic, id, data, NoArg), put(fs, topic, id, data))

Ids(topics) ==
  \E topic \in topics :
    Do(Call("ids", topic, NoArg, Undefined, NoArg), ids(fs, order, topic))

All(topics) ==
  \E topic \in topics :
    Do(Call("all", topic, NoArg, Undefined, NoArg), all(fs, order, topic))

Values(topics) ==
  \E topic \in topics :
    Do(Call("values", topic, NoArg, Undefined, NoArg), values(fs, order, topic))

Move(topics) ==
  \E topic \in topics, idArg \in IdOrIds, newTopic \in topics :
    Do(Call("move", topic, idArg, Undefined, newTopic),
       move(fs, topic, idArg, newTopic))

Delete(topics) ==
  \E topic \in topics, idArg \in IdOrIds :
    Do(Call("delete", topic, idArg, Undefined, NoArg), delete(fs, topic, idArg))

Clean(topics) ==
  \E topic \in topics :
    Do(Call("clean", topic, NoArg, Undefined, NoArg), clean(fs, order, topic))

\* the caller has taken the result of the last call
Return ==
  /\ call # Idle
  /\ call' = Idle
  /\ ret' = "void"
  /\ err' = NONE
  /\ UNCHANGED <<fs, order, plain, run>>

Next ==
  \/ Get(TopicArgs) \/ Put(TopicArgs) \/ Ids(TopicArgs) \/ All(TopicArgs)
  \/ Values(TopicArgs) \/ Move(TopicArgs) \/ Delete(TopicArgs)
  \/ Clean(TopicArgs) \/ Return

Spec == Init /\ [][Next]_vars

\* the same store, called with a topic nested in another
NextNested ==
  \/ Get(NestedTopicArgs) \/ Put(NestedTopicArgs) \/ Ids(NestedTopicArgs)
  \/ All(NestedTopicArgs) \/ Values(NestedTopicArgs) \/ Move(NestedTopicArgs)
  \/ Delete(NestedTopicArgs) \/ Clean(NestedTopicArgs) \/ Return

SpecNested == Init /\ [][NextNested]_vars

-----------------------------------------------------------------------------
(* The store called with arguments of every shape, invalid ones included,  *)
(* with purge, and with new stores being constructed.                      *)

\* the empty string, a number, a relative path and the base directory
Empty == Str(<<>>)
Num5 == [t |-> "number", s |-> <<"5">>, items |-> <<>>]
Relative == Str(<<"data">>)
BaseArg == Str(basedir)

AnyTopics == {A, B, AXJson, Empty}
AnyIdElems == {X, Y, Empty}
AnyIds == {X, Y, Empty, Num5}
AnyIdOrIds ==
  AnyIds \cup {Arr(l) : l \in UNION {[1..n -> AnyIdElems] : n \in 0..MaxIds}}
AnyData == {JZero, Undefined}
AnyBasedirs == {BaseArg, Relative, Empty, Num5, NoArg}

MethodCalls ==
  {Call(op, topic, id, Undefined, NoArg) :
     op \in {"get"}, topic \in AnyTopics, id \in AnyIds}
  \cup {Call("put", topic, id, data, NoArg) :
          topic \in AnyTopics, id \in AnyIds, data \in AnyData}
  \cup {Call(op, topic, NoArg, Undefined, NoArg) :
          op \in {"ids", "all", "values", "clean"}, topic \in AnyTopics}
  \cup {Call("delete", topic, idArg, Undefined, NoArg) :
          topic \in AnyTopics, idArg \in AnyIdOrIds}
  \cup {Call("move", topic, idArg, Undefined, newTopic) :
          topic \in AnyTopics, idArg \in AnyIdOrIds, newTopic \in AnyTopics}

PurgeCalls ==
  {Call("purge", topic, idArg, Undefined, NoArg) :
     topic \in {A, B}, idArg \in IdArrays}

\* for new, the field topic holds the basedir argument
ConstructorCalls ==
  {Call("new", dir, NoArg, Undefined, NoArg) : dir \in AnyBasedirs}

\* the outcome of the call c in the filesystem f
Apply(c, f, ord) ==
  CASE c.op = "get" -> get(f, c.topic, c.id)
    [] c.op = "put" -> put(f, c.topic, c.id, c.data)
    [] c.op = "ids" -> ids(f, ord, c.topic)
    [] c.op = "all" -> all(f, ord, c.topic)
    [] c.op = "values" -> values(f, ord, c.topic)
    [] c.op = "move" -> move(f, c.topic, c.id, c.newTopic)
    [] c.op = "delete" -> delete(f, c.topic, c.id)
    [] c.op = "clean" -> clean(f, ord, c.topic)
    [] c.op = "purge" -> purge(f, c.topic, c.id)
    [] c.op = "new" -> constructor(f, c.topic)

Invoke(calls) == \E c \in calls : Do(c, Apply(c, fs, order))

NextArgs ==
  Invoke(MethodCalls) \/ Invoke(PurgeCalls) \/ Invoke(ConstructorCalls) \/ Return

SpecArgs == Init /\ [][NextArgs]_vars

-----------------------------------------------------------------------------
(* Two processes on one base directory.  A method is synchronous within    *)
(* its process, but its filesystem calls interleave with those of the      *)
(* other process: caller p puts, reads and cleans topic a, caller q        *)
(* deletes from it and cleans it.                                          *)

RaceTopic == A
RaceData == {JNull, JZero}
\* what q deletes: one id, both in either order, or none
RaceIds == {X, Y, Arr(<<X, Y>>), Arr(<<Y, X>>), Arr(<<>>)}
RaceOps(c) == IF c = "p" THEN {"put", "all", "values", "clean"}
              ELSE {"delete", "clean"}

\* what the caller with record r, not taking the step, has seen happen when
\* a caller running method op took the filesystem from f to g
Observe(r, op, f, g) ==
  [r EXCEPT
     !.peers = IF r.pc \in {"idle", "done"} THEN @ ELSE @ \cup {op},
     !.lost = @ \/ (/\ r.pc = "write"
                    /\ IsDir(f, _dirname(r.topic))
                    /\ ~IsDir(g, _dirname(r.topic))),
     !.gone = @ \/ (/\ r.op = "put" /\ r.pc = "done" /\ r.err = NONE
                    /\ IsFile(f, _pathname(r.topic, r.id))
                    /\ ~IsFile(g, _pathname(r.topic, r.id)))]

\* caller c moves on to the record new, leaving the filesystem g
Step(c, new, g) ==
  /\ call = Idle
  /\ fs' = g
  /\ run' = [d \in Procs |->
               IF d = c THEN new
               ELSE IF run[c].pc \in {"idle", "done"} THEN run[d]
               ELSE Observe(run[d], run[c].op, fs, g)]
  /\ UNCHANGED <<order, call, ret, err, plain>>

\* where a method goes when its loop over the files has ended
AfterLoop(op) == IF op \in {"clean", "delete"} THEN "rmdir" ELSE "done"

\* caller c enters a method: the arguments are checked, no file is touched
Begin(c) ==
  /\ run[c].pc = "idle"
  /\ \E op \in RaceOps(c), id \in IdArgs, idArg \in RaceIds, data \in RaceData :
       Step(c,
            CASE op = "put" ->
                   [Quiet EXCEPT !.op = op, !.pc = "mkdirs",
                                 !.topic = RaceTopic, !.id = id, !.data = data]
              [] op = "delete" ->
                   [Quiet EXCEPT !.op = op, !.topic = RaceTopic, !.id = idArg,
                                 !.todo = AsArray(idArg).items,
                                 !.pc = IF AsArray(idArg).items = <<>>
                                          THEN "rmdir" ELSE "unlink"]
              [] OTHER ->
                   [Quiet EXCEPT !.op = op, !.pc = "readdir",
                                 !.topic = RaceTopic],
            fs)

\* put: _mkdirs(this._dirname(topic))
Mkdirs(c) ==
  /\ run[c].pc = "mkdirs"
  /\ Let(_mkdirs(fs, _dirname(run[c].topic)), LAMBDA m :
       IF m.err # NONE
         THEN Step(c, [run[c] EXCEPT !.pc = "done", !.err = m.err], m.fs)
         ELSE Step(c, [run[c] EXCEPT !.pc = "write"], m.fs))

\* put: _writeFile(this._pathname(topic, id), data)
Write(c) ==
  /\ run[c].pc = "write"
  /\ Let(_writeFile(fs, _pathname(run[c].topic, run[c].id), run[c].data),
         LAMBDA w :
       Step(c, [run[c] EXCEPT !.pc = "done", !.err = w.err], w.fs))

\* _processFiles: readdirSync; ENOENT is swallowed and nothing is processed
Readdir(c) ==
  /\ run[c].pc = "readdir"
  /\ Let(readdirSync(fs, _dirname(run[c].topic), order), LAMBDA d :
       IF d.err = ENOENT \/ (d.err = NONE /\ d.names = <<>>)
         THEN Step(c, [run[c] EXCEPT !.pc = AfterLoop(run[c].op)], fs)
       ELSE IF d.err # NONE
         THEN Step(c, [run[c] EXCEPT !.pc = "done", !.err = d.err], fs)
       ELSE Step(c, [run[c] EXCEPT !.pc = "each", !.todo = d.names,
                                   !.listed = d.names], fs))

\* _processFiles: one turn of filenames.forEach; the ENOENT of a callback is
\* caught with that of readdirSync, and ends the loop without an error
Each(c) ==
  /\ run[c].pc = "each"
  /\ Let(Head(run[c].todo), LAMBDA filename :
     Let(IF Tail(run[c].todo) = <<>> THEN AfterLoop(run[c].op) ELSE "each",
         LAMBDA next :
       IF ~EndsWith(filename, EXTENSION)
         THEN Step(c, [run[c] EXCEPT !.todo = Tail(@), !.pc = next], fs)
       ELSE Let(Callback(run[c].op, fs, run[c].acc,
                         PathResolve(<<basedir, run[c].topic.s, filename>>),
                         Basename(filename, EXTENSION)), LAMBDA r :
              IF r.err = ENOENT
                THEN Step(c, [run[c] EXCEPT !.todo = <<>>,
                                            !.pc = AfterLoop(run[c].op)], r.fs)
              ELSE IF r.err # NONE
                THEN Step(c, [run[c] EXCEPT !.todo = <<>>, !.pc = "done",
                                            !.err = r.err], r.fs)
              ELSE Step(c, [run[c] EXCEPT !.todo = Tail(@), !.acc = r.val,
                                          !.pc = next], r.fs))))

\* delete: one turn of ids.forEach; a missing file is skipped
Unlink(c) ==
  /\ run[c].pc = "unlink"
  /\ Let(Head(run[c].todo), LAMBDA id :
     Let(IF Tail(run[c].todo) = <<>> THEN "rmdir" ELSE "unlink", LAMBDA next :
     Let(unlinkSync(fs, _pathname(run[c].topic, id)), LAMBDA u :
       IF u.err = NONE
         THEN Step(c, [run[c] EXCEPT !.todo = Tail(@), !.pc = next,
                                     !.acc = Append(@, id)], u.fs)
       ELSE IF u.err = ENOENT
         THEN Step(c, [run[c] EXCEPT !.todo = Tail(@), !.pc = next], fs)
       ELSE Step(c, [run[c] EXCEPT !.todo = <<>>, !.pc = "done",
                                   !.err = u.err], fs))))

\* delete and clean: this._deleteTopicIfEmpty(topic)
Rmdir(c) ==
  /\ run[c].pc = "rmdir"
  /\ Let(_deleteTopicIfEmpty(fs, run[c].topic), LAMBDA t :
       Step(c, [run[c] EXCEPT !.pc = "done", !.err = t.err], t.fs))

\* the caller has taken the result of its call
Finish(c) ==
  /\ run[c].pc = "done"
  /\ Step(c, Quiet, fs)

NextRace ==
  \E c \in Procs :
    \/ Begin(c) \/ Mkdirs(c) \/ Write(c) \/ Readdir(c) \/ Each(c)
    \/ Unlink(c) \/ Rmdir(c) \/ Finish(c)

SpecRace == Init /\ [][NextRace]_vars

-----------------------------------------------------------------------------
(* Properties.                                                             *)

\* every name a directory holds has a place in the listing order, and every
\* entry lies in a directory
TypeOK ==
  /\ \A q \in DOMAIN fs : q = <<>> \/ \E k \in 1..Len(order) : order[k] = Last(q)
  /\ \A q \in DOMAIN fs : q = <<>> \/ IsDir(fs, Front(q))


\* nothing is at path p, and no regular file lies on the way to it
NothingAt(f, p) ==
  /\ p \notin DOMAIN f
  /\ \A k \in 0..(Len(p) - 1) :
       SubSeq(p, 1, k) \in DOMAIN f => f[SubSeq(p, 1, k)] = "dir"

Range(s) == {s[k] : k \in 1..Len(s)}

\* the ids a call names: its id, or the elements of its array of ids
Named(c) == IF c.id.t = "array" THEN Range(c.id.items) ELSE {c.id}

\* data that JSON.parse(JSON.stringify(data)) gives back
RoundTrips(data) ==
  stringify(data).err = NONE /\ parse(stringify(data).text).val = data

\* the records a file can hold
Records == {JNull, JZero, JEmpty}

\* what get gives: the record, Undefined, or the error raised
Got(f, topic, id) ==
  Let(get(f, topic, id), LAMBDA r : IF r.err = NONE THEN r.val ELSE r.err)

\* call c deletes, moves or cleans id in topic
Removes(c, topic, id) ==
  /\ c.topic = topic
  /\ \/ c.op = "clean"
     \/ c.op \in {"delete", "move"} /\ id \in Named(c)

\* call c writes id in topic: a put to it, or a move into it
Writes(c, topic, id) ==
  \/ c.op = "put" /\ c.topic = topic /\ c.id = id
  \/ c.op = "move" /\ c.newTopic = topic /\ id \in Named(c)

-----------------------------------------------------------------------------
\* C1 (as claimed): after put(topic, id, data) returns, get(topic, id) gives
\* data, for every defined data; and the record that get(topic, id) gives
\* stays the same over every call that is not a put to (topic, id) and does
\* not delete, move or clean that id.
C1_AsClaimed ==
  [][call' # Idle =>
       /\ (call'.op = "put" /\ err' = NONE) =>
            Got(fs', call'.topic, call'.id) = call'.data
       /\ \A topic \in TopicArgs, id \in IdArgs :
            (Got(fs, topic, id) \in Records
               /\ ~Removes(call', topic, id)
               /\ ~(call'.op = "put" /\ call'.topic = topic /\ call'.id = id))
              => Got(fs', topic, id) = Got(fs, topic, id)]_vars

\* C1 (amended): after put(topic, id, data) returns, get(topic, id) gives data
\* when data is a value JSON represents (null, 0 and "" are; NaN is not); and
\* when the store is only ever called with plain names (no path separator in
\* a topic or an id, no topic "." or ".."), the record that get(topic, id)
\* gives stays the same over every call that neither writes (topic, id), by
\* a put or by a move into it, nor deletes, moves or cleans it.
C1_RoundTrip ==
  [][call' # Idle =>
       /\ (call'.op = "put" /\ err' = NONE /\ RoundTrips(call'.data)) =>
            Got(fs', call'.topic, call'.id) = call'.data
       /\ plain' =>
            \A topic \in TopicArgs, id \in IdArgs :
              (PlainTopic(topic) /\ PlainId(id)
                 /\ Got(fs, topic, id) \in Records
                 /\ ~Removes(call', topic, id) /\ ~Writes(call', topic, id))
                => Got(fs', topic, id) = Got(fs, topic, id)]_vars

\* a put of null has returned and get gives null, not Undefined
C1_Witness ==
  /\ call.op = "put" /\ err = NONE /\ plain
  /\ call.data = JNull
  /\ Got(fs, call.topic, call.id) = JNull

-----------------------------------------------------------------------------
-----------------------------------------------------------------------------
\* the ids that ids(topic) lists
Listed(f, ord, topic) ==
  Let(ids(f, ord, topic), LAMBDA r : IF r.err = NONE THEN Range(r.val) ELSE {})

\* the ids call c, which returned rv or raised e, has put or moved into topic
Added(c, rv, e, topic) ==
  IF e # NONE THEN {}
  ELSE IF c.op = "put" /\ c.topic = topic THEN {c.id}
  ELSE IF c.op = "move" /\ c.newTopic = topic THEN Range(rv)
  ELSE {}

\* the ids call c, which returned rv or raised e, has removed from topic
Taken(c, rv, e, topic) ==
  IF e = NONE /\ c.op \in {"delete", "move", "clean"} /\ c.topic = topic
    THEN Range(rv)
    ELSE {}

\* ids(topic) lists, each once, the ids listed before the call, with those
\* the call added and without those it removed, and each has its file
Tracks(f, g, ord, c, rv, e, topic) ==
  Let(ids(g, ord, topic), LAMBDA r :
    /\ r.err = NONE
    /\ Len(r.val) = Cardinality(Range(r.val))
    /\ Range(r.val)
         = (Listed(f, ord, topic) \cup Added(c, rv, e, topic))
             \ Taken(c, rv, e, topic)
    /\ \A id \in Range(r.val) : IsFile(g, _pathname(topic, id)))

\* C3 (as claimed): from an empty base directory, after any sequence of calls
\* ids(topic) lists, each once, exactly the ids put or moved into topic and
\* not since removed from it by delete, move or clean, with one file each.
\* Stated step by step: no topic lists an id at the start, and every call
\* changes the list of every topic by exactly what it added and removed.
C3_AsClaimed ==
  /\ \A topic \in TopicArgs : Listed(fs, order, topic) = {}
  /\ [][call' # Idle =>
          \A topic \in TopicArgs :
            Tracks(fs, fs', order, call', ret', err', topic)]_vars

\* C3 (amended): the same, for a store that is only ever called with plain
\* names (no path separator in a topic or an id, no topic "." or "..").
C3_Plain ==
  /\ \A topic \in TopicArgs : Listed(fs, order, topic) = {}
  /\ [][(call' # Idle /\ plain') =>
          \A topic \in TopicArgs :
            PlainTopic(topic)
              => Tracks(fs, fs', order, call', ret', err', topic)]_vars

\* a move between plain topics has returned and the new topic lists two ids
C3_Witness ==
  /\ plain /\ call.op = "move" /\ err = NONE /\ ret # <<>>
  /\ Cardinality(Listed(fs, order, call.newTopic)) = 2
  /\ call.newTopic # call.topic

-----------------------------------------------------------------------------
\* C4 (as claimed): for a topic whose directory does not exist, ids, all and
\* values return an empty collection, raise no error and create nothing.
C4_AsClaimed ==
  [][(call'.op \in {"ids", "all", "values"}
        /\ ~IsDir(fs, _dirname(call'.topic)))
       => (err' = NONE /\ ret' = <<>> /\ fs' = fs)]_vars

\* C4 (amended): for a topic at whose path nothing exists, with no regular
\* file on the way to it, ids, all and values return an empty collection,
\* raise no error and create nothing.
C4_Missing ==
  [][(call'.op \in {"ids", "all", "values"}
        /\ NothingAt(fs, _dirname(call'.topic)))
       => (err' = NONE /\ ret' = <<>> /\ fs' = fs)]_vars

\* all has returned the empty mapping for a topic without a directory, and
\* the directory still does not exist while another topic's does
C4_Witness ==
  /\ call.op = "all" /\ err = NONE /\ ret = <<>>
  /\ NothingAt(fs, _dirname(call.topic))
  /\ \E topic \in TopicArgs : IsDir(fs, _dirname(topic))

-----------------------------------------------------------------------------
\* a regular file named as the file of a record
ManagedFile(f, q) == IsFile(f, q) /\ EndsWith(Last(q), EXTENSION)

\* every entry of the directory of topic with the name of a record's file is
\* a regular file
RecordsAreFiles(f, topic) ==
  \A q \in Children(f, _dirname(topic)) :
    EndsWith(Last(q), EXTENSION) => IsFile(f, q)

\* all(topic) has returned rv or raised e in f: when ids(topic) returns, so
\* did all, and the keys of rv are the ids listed, each mapped to what get
\* gives for it
AgreeAll(f, ord, topic, rv, e) ==
  Let(ids(f, ord, topic), LAMBDA i :
    i.err = NONE =>
      /\ e = NONE
      /\ DOMAIN rv = {i.val[k].s : k \in 1..Len(i.val)}
      /\ \A k \in 1..Len(i.val) : rv[i.val[k].s] = Got(f, topic, i.val[k]))

\* values(topic) has returned rv or raised e in f: when ids(topic) returns,
\* so did values, and rv is the records of the ids in the order of ids(topic)
AgreeValues(f, ord, topic, rv, e) ==
  Let(ids(f, ord, topic), LAMBDA i :
    i.err = NONE =>
      /\ e = NONE
      /\ Len(rv) = Len(i.val)
      /\ \A k \in 1..Len(i.val) : rv[k] = Got(f, topic, i.val[k]))

\* C5 (as claimed): in every reachable state and for every topic that ids
\* lists, the keys of all(topic) are exactly the ids of ids(topic), each
\* mapped to get(topic, id), and values(topic) is the sequence of those
\* records in the order of ids(topic).
C5_AsClaimed ==
  /\ call.op = "all" => AgreeAll(fs, order, call.topic, ret, err)
  /\ call.op = "values" => AgreeValues(fs, order, call.topic, ret, err)

\* C5 (amended): the same, for every topic in whose directory every entry
\* named as a record's file (*.json) is a regular file.
C5_Regular ==
  RecordsAreFiles(fs, call.topic) =>
    /\ call.op = "all" => AgreeAll(fs, order, call.topic, ret, err)
    /\ call.op = "values" => AgreeValues(fs, order, call.topic, ret, err)

\* all has returned two different records of a topic whose directory holds
\* regular files only, with the ids of ids(topic) as their keys
C5_Witness ==
  /\ call.op = "all" /\ err = NONE
  /\ RecordsAreFiles(fs, call.topic)
  /\ Cardinality(DOMAIN ret) = 2
  /\ \E j, k \in DOMAIN ret : ret[j] # ret[k]
  /\ Cardinality(Listed(fs, order, call.topic)) = 2

-----------------------------------------------------------------------------
RECURSIVE Present(_, _, _, _)
\* the ids of idList whose file exists in f, in the order of idList, an id
\* named twice counted where it is named first
Present(f, topic, idList, seen) ==
  IF idList = <<>> THEN <<>>
  ELSE (IF IsFile(f, _pathname(topic, Head(idList))) /\ Head(idList) \notin seen
          THEN <<Head(idList)>> ELSE <<>>)
         \o Present(f, topic, Tail(idList), seen \cup {Head(idList)})

\* what the call delete(topic, idArg), made in f, is to return and to leave
Deleted(f, g, rv, e, topic, idArg) ==
  /\ e = NONE
  /\ rv = Present(f, topic, AsArray(idArg).items, {})
  /\ \A id \in Range(AsArray(idArg).items) : ~IsFile(g, _pathname(topic, id))
  /\ delete(g, topic, idArg) = Returned(g, <<>>)

\* no regular file lies at the path of the directory of topic or on the way
\* to it, and no directory lies where the file of a requested id would be
Deletable(f, topic, idArg) ==
  /\ \A k \in 0..Len(_dirname(topic)) :
       ~IsFile(f, SubSeq(_dirname(topic), 1, k))
  /\ \A id \in Range(AsArray(idArg).items) : ~IsDir(f, _pathname(topic, id))

-----------------------------------------------------------------------------
\* p is a directory without entries
EmptyDir(f, p) == IsDir(f, p) /\ Children(f, p) = {}

\* no directory right below basedir, where plain topics have theirs, is empty
NoEmptyTopicDir(f) ==
  \A q \in Children(f, PathResolve(<<basedir>>)) : ~EmptyDir(f, q)

\* after a delete, move or clean on topic has returned, its directory is not
\* left empty, and every entry it held that is not a record's file is still
\* there with the directory
Tidy(f, g, c, e) ==
  (c.op \in {"delete", "move", "clean"} /\ e = NONE) =>
    /\ ~EmptyDir(g, _dirname(c.topic))
    /\ \A q \in Children(f, _dirname(c.topic)) :
         ~ManagedFile(f, q)
           => (q \in DOMAIN g /\ g[q] = f[q] /\ IsDir(g, _dirname(c.topic)))

-----------------------------------------------------------------------------
\* what the call clean(topic), made in f, is to return and to leave
Cleaned(f, g, ord, rv, e, topic) ==
  /\ e = NONE
  /\ Range(rv) = Listed(f, ord, topic)
  /\ Len(rv) = Cardinality(Range(rv))
  /\ \A id \in Listed(f, ord, topic) : ~IsFile(g, _pathname(topic, id))
  /\ _dirname(topic) \notin DOMAIN g
  /\ ids(g, ord, topic) = Returned(g, <<>>)

\* nothing is at the path of the directory of topic, or it is a directory
\* that holds the regular files of records (*.json) and nothing else
Cleanable(f, topic) ==
  \/ NothingAt(f, _dirname(topic))
  \/ /\ IsDir(f, _dirname(topic))
     /\ \A q \in Children(f, _dirname(topic)) : ManagedFile(f, q)

\* C8 (as claimed): clean(topic) removes every id stored under topic, returns
\* exactly the ids it removed and removes the topic directory; ids(topic)
\* then returns the empty list and the directory is gone from its parent.
C8_AsClaimed ==
  [][call'.op = "clean" =>
       Cleaned(fs, fs', order, ret', err', call'.topic)]_vars

\* C8 (amended): the same, when the topic directory is missing (nothing at
\* its path, no regular file on the way) or is a directory that holds regular
\* *.json files and nothing else; otherwise clean raises the filesystem's
\* error or leaves the directory with the entries it does not manage.
C8_Cleanable ==
  [][(call'.op = "clean" /\ Cleanable(fs, call'.topic)) =>
       Cleaned(fs, fs', order, ret', err', call'.topic)]_vars

\* a clean has returned two ids, their topic's directory is gone, and
\* another topic still has its directory
C8_Witness ==
  /\ call.op = "clean" /\ err = NONE /\ Len(ret) = 2
  /\ _dirname(call.topic) \notin DOMAIN fs
  /\ \E topic \in TopicArgs : IsDir(fs, _dirname(topic))

-----------------------------------------------------------------------------
\* C9 (as claimed): for every topic and every reachable state, clean(topic)
\* called twice in a row raises no error, the second call returns the empty
\* list and leaves the filesystem as the first call left it.
C9_AsClaimed ==
  call.op = "clean" =>
    (err = NONE /\ clean(fs, order, call.topic) = Returned(fs, <<>>))

\* C9 (amended): after a clean(topic) that raised no error, a second
\* clean(topic) right after raises no error, returns the empty list and
\* leaves the filesystem as the first call left it.
C9_Idempotent ==
  (call.op = "clean" /\ err = NONE)
    => clean(fs, order, call.topic) = Returned(fs, <<>>)

\* a clean that removed an id has returned, and a second clean of the same
\* topic returns the empty list
C9_Witness ==
  /\ call.op = "clean" /\ err = NONE /\ ret # <<>>
  /\ clean(fs, order, call.topic).val = <<>>

-----------------------------------------------------------------------------
\* after the call c, a move that returned after it was made in f, every id
\* it names that had a record in its topic is absent there and has that
\* record in the new topic
Moved(f, g, c) ==
  \A id \in Named(c) :
    Got(f, c.topic, id) \in Records
      => /\ Got(g, c.topic, id) = Undefined
         /\ Got(g, c.newTopic, id) = Got(f, c.topic, id)

-----------------------------------------------------------------------------
\* no id that idArg names has a file in topic
NoneExists(f, topic, idArg) ==
  \A id \in Range(AsArray(idArg).items) : ~IsFile(f, _pathname(topic, id))

\* C11 (as claimed): when none of the requested ids exists in topic,
\* move(topic, idOrIds, newTopic) returns the empty list, raises no error
\* and leaves the filesystem as it was. Stated for topics and ids without a
\* conflict of file and directory at their paths (Deletable).
C11_AsClaimed ==
  [][(call'.op = "move"
        /\ Deletable(fs, call'.topic, call'.id)
        /\ NoneExists(fs, call'.topic, call'.id))
       => (err' = NONE /\ ret' = <<>> /\ fs' = fs)]_vars

-----------------------------------------------------------------------------
\* the ids call c names that were moved from f to g: in topic before the
\* call, in newTopic and no longer in topic after it
MovedIds(f, g, c) ==
  {id \in Named(c) :
     /\ IsFile(f, _pathname(c.topic, id))
     /\ IsFile(g, _pathname(c.newTopic, id))
     /\ ~IsFile(g, _pathname(c.topic, id))}

RECURSIVE Filter(_, _)
\* the elements of the sequence s that are in the set keep, in the order of s
Filter(s, keep) ==
  IF s = <<>> THEN <<>>
  ELSE (IF Head(s) \in keep THEN <<Head(s)>> ELSE <<>>) \o Filter(Tail(s), keep)

\* C12 (as claimed): a move that returns, returns exactly the ids that were
\* moved (in topic before the call, in newTopic and absent from topic after
\* it), in the order in which the call names them, for one id and for a list
\* of ids, an id named twice included.
C12_AsClaimed ==
  [][(call'.op = "move" /\ err' = NONE)
       => ret' = Filter(AsArray(call'.id).items, MovedIds(fs, fs', call'))]_vars

\* the same for a topic and a newTopic that name different directories
C12_Elsewhere ==
  [][(call'.op = "move" /\ err' = NONE
        /\ _dirname(call'.topic) # _dirname(call'.newTopic))
       => ret' = Filter(AsArray(call'.id).items, MovedIds(fs, fs', call'))]_vars

-----------------------------------------------------------------------------
\* C13 (as claimed): the store offers purge(topic, ids); it removes from
\* topic exactly the requested ids that exist there and returns that subset,
\* returns the empty result for a missing topic, and leaves the topic
\* directory in place.
C13_AsClaimed ==
  [][call'.op = "purge" =>
       /\ err' = NONE
       /\ Range(ret') = {id \in Named(call') :
                           IsFile(fs, _pathname(call'.topic, id))}
       /\ \A id \in Named(call') : ~IsFile(fs', _pathname(call'.topic, id))
       /\ IsDir(fs, _dirname(call'.topic)) => IsDir(fs', _dirname(call'.topic))]_vars

-----------------------------------------------------------------------------
\* C14 (as claimed): a call that fails with InvalidArgument (the TypeError of
\* the argument checks) fails before any filesystem operation: it leaves the
\* filesystem as it was.
C14_AsClaimed ==
  [][(call' # Idle /\ err' = TypeError) => fs' = fs]_vars

-----------------------------------------------------------------------------
\* a non-empty string that is an absolute path
ValidBasedir(x) == x.t = "string" /\ x.s # <<>> /\ Head(x.s) = SEP

\* C15: new JsonStore(dir) raises TypeError exactly when dir is not a
\* non-empty string or not an absolute path, and, raising or not, it leaves
\* the filesystem as it was: the base directory is not created.
C15_Constructor ==
  [][call'.op = "new" =>
       /\ fs' = fs
       /\ err' = (IF ValidBasedir(call'.topic) THEN NONE ELSE TypeError)]_vars

\* a store has been constructed on the base directory, which does not exist
C15_Witness ==
  /\ call.op = "new" /\ err = NONE /\ call.topic = BaseArg
  /\ PathResolve(<<basedir>>) \notin DOMAIN fs

-----------------------------------------------------------------------------
\* p is the path of a directory that holds q, or is q
Above(p, q) == Len(p) <= Len(q) /\ SubSeq(q, 1, Len(p)) = p

\* from f to g nothing was removed, nothing but the file of (topic, id)
\* changed, and nothing was created but that file and directories on the
\* path to the directory of topic
PutFrame(f, g, topic, id) ==
  /\ \A q \in DOMAIN f :
       q \in DOMAIN g /\ (q # _pathname(topic, id) => g[q] = f[q])
  /\ \A q \in DOMAIN g \ DOMAIN f :
       \/ q = _pathname(topic, id) /\ g[q] # "dir"
       \/ g[q] = "dir" /\ Above(q, _dirname(topic))

\* C16: get, ids, all and values leave the filesystem as it was, and
\* put(topic, id, data), returning or raising, changes only the file of
\* (topic, id) and creates only directories on the path to the directory of
\* topic: no other record changes and nothing is removed.
C16_Frame ==
  [][/\ call'.op \in {"get", "ids", "all", "values"} => fs' = fs
     /\ call'.op = "put" => PutFrame(fs, fs', call'.topic, call'.id)]_vars

\* a put has written a record while another topic holds a record
C16_Witness ==
  /\ call.op = "put" /\ err = NONE
  /\ IsFile(fs, _pathname(call.topic, call.id))
  /\ \E topic \in TopicArgs, id \in IdArgs :
       /\ _dirname(topic) # _dirname(call.topic)
       /\ IsFile(fs, _pathname(topic, id))

-----------------------------------------------------------------------------
\* C17: move copies every requested id to newTopic before it removes a file
\* from topic; so when the call raises an error (on an invalid id, on a
\* write that fails), every record that was in topic before the call is
\* still read from topic with the value it had.
C17_CopyFirst ==
  [][(call'.op = "move" /\ err' # NONE) =>
       \A id \in IdArgs :
         Got(fs, call'.topic, id) \in Records
           => Got(fs', call'.topic, id) = Got(fs, call'.topic, id)]_vars

\* a move of x and of the empty string has raised TypeError after it copied
\* x: the record of x is in the new topic and still in the old one
C17_Witness ==
  /\ call.op = "move" /\ err = TypeError
  /\ call.id = Arr(<<X, Empty>>)
  /\ _dirname(call.topic) # _dirname(call.newTopic)
  /\ Got(fs, call.topic, X) \in Records
  /\ Got(fs, call.newTopic, X) = Got(fs, call.topic, X)

-----------------------------------------------------------------------------
\* the managed files that the directory of topic holds in f
ManagedIn(f, topic) ==
  {q \in Children(f, _dirname(topic)) : EndsWith(Last(q), EXTENSION)}

\* C18 as claimed: while the other caller only deletes ids of the topic, a
\* clean(topic) that returns without error has removed every managed file:
\* once both callers have finished, no managed file is left in the topic and
\* the topic directory is gone.
C18_AsClaimed ==
  (/\ run["p"].op = "clean" /\ run["p"].pc = "done" /\ run["p"].err = NONE
   /\ run["p"].peers \subseteq {"delete"}
   /\ run["q"].pc \in {"idle", "done"})
    => /\ ManagedIn(fs, run["p"].topic) = {}
       /\ ~IsDir(fs, _dirname(run["p"].topic))

\* the names that readdirSync listed to caller c and that are still files
StillThere(c) ==
  {k \in 1..Len(run[c].listed) :
     IsFile(fs, PathResolve(<<basedir, run[c].topic.s, run[c].listed[k]>>))}

\* C19 as claimed: all(topic) and values(topic) never return a truncated
\* result: a call that returns without error returns the record of every id
\* that was in the topic throughout the call (the ids listed that are still
\* there when it has returned: no caller adds a file meanwhile).
C19_AsClaimed ==
  (/\ run["p"].op \in {"all", "values"} /\ run["p"].pc = "done"
   /\ run["p"].err = NONE)
    => \A k \in StillThere("p") :
         IF run["p"].op = "all"
           THEN Basename(run["p"].listed[k], EXTENSION) \in DOMAIN run["p"].acc
           ELSE Len(run["p"].acc) >= Cardinality(StillThere("p"))

\* the put of caller p has ended
PutDone == run["p"].op = "put" /\ run["p"].pc = "done"

\* get(topic, id) returns what caller p put
PutReadable ==
  Got(fs, run["p"].topic, run["p"].id) = parse(stringify(run["p"].data).text).val

=============================================================================
